---- MODULE Spec2Model ----
(***************************************************************************)
(* Model of the record verifier of surveyCTOprover (verify.go): the        *)
(* fingerprint pipeline (sha256Bytes, merkleRoot, record hash) and the     *)
(* topic search of main (context with timeout, Subscribe callbacks, the    *)
(* blocking wait on ctx.Done()).                                           *)
(*                                                                         *)
(* Byte strings ([]byte and string) are sequences of numbers 0..255.       *)
(* SHA-256 is not computed bit by bit: sha256Bytes is a deterministic      *)
(* 32-byte mixing function, which keeps what the program relies on         *)
(* (fixed 32-byte output, a function of the input bytes only, distinct     *)
(* outputs for the distinct inputs of the model).                          *)
(***************************************************************************)
EXTENDS Integers, Sequences, FiniteSets, TLC

\* ------------------------------------------------------------------ bounds
\* number of distinct attachment blobs and longest digest list in MerkleSpec
NumBlobs == 3
MaxAtt == 3
\* largest -timeout (seconds) of a verifier run
MaxTimeout == 1
\* messages the topic stream holds (sequence numbers 1..MaxSeq)
MaxSeq == 3
\* messages already in flight that a stream still delivers after cancellation
MaxInFlight == 1
\* leaves of the pool used to build the JSON texts given to canonicalMarshal
NumLeaves == 4

\* --------------------------------------------------------- program constants
\* sha256.Size, and make([]byte, 32) in merkleRoot
DigestLen == 32

\* ------------------------------------------------------------- byte helpers
MinOf(S) == CHOOSE x \in S : \A y \in S : x <= y

\* strings.Compare(string(a), string(b)) < 0 : byte-wise lexicographic order
BytesLess(a, b) ==
    LET n == IF Len(a) < Len(b) THEN Len(a) ELSE Len(b)
        diff == {i \in 1..n : a[i] # b[i]}
    IN  IF diff = {} THEN Len(a) < Len(b)
        ELSE a[MinOf(diff)] < b[MinOf(diff)]

\* ------------------------------------------------------------------ hashing
\* digest state of the bytes b[lo..hi], combined pairwise over halves
RECURSIVE MixBytes(_, _, _)
MixBytes(b, lo, hi) ==
    IF lo > hi THEN 7
    ELSE IF lo = hi THEN b[lo] + 1
    ELSE LET mid == (lo + hi) \div 2
         IN  (MixBytes(b, lo, mid) * 1031 + MixBytes(b, mid + 1, hi) * 31 + 1) % 1000003

DigestByte(mixed, n) ==
    LET shift == IF n % 3 = 1 THEN 1 ELSE IF n % 3 = 2 THEN 256 ELSE 65536
    IN  ((mixed \div shift) + 31 * (n \div 4)) % 256

\* sha256Bytes(b): the 32-byte digest of b
sha256Bytes(b) ==
    LET mixed == (MixBytes(b, 1, Len(b)) * 1031 + Len(b)) % 1000003
    IN  [n \in 1..DigestLen |-> DigestByte(mixed, n)]

\* ------------------------------------------------------------- merkleRoot
\* sort.Slice(cp, less) on a copy: insertion into byte-wise ascending order
RECURSIVE InsertSorted(_, _)
InsertSorted(x, s) ==
    IF s = <<>> THEN <<x>>
    ELSE IF BytesLess(Head(s), x) THEN <<Head(s)>> \o InsertSorted(x, Tail(s))
    ELSE <<x>> \o s

RECURSIVE SortSlice(_)
SortSlice(s) == IF s = <<>> THEN <<>> ELSE InsertSorted(Head(s), SortSlice(Tail(s)))

\* one pass of the inner for loop: pairs (i, i+1), the last one paired with
\* itself when the level has an odd length
RECURSIVE PairFrom_PromoteOdd(_, _)
PairFrom_PromoteOdd(level, i) ==
    IF i > Len(level) THEN <<>>
    ELSE IF i = Len(level) THEN <<level[i]>>
    ELSE <<sha256Bytes(level[i] \o level[i + 1])>> \o PairFrom_PromoteOdd(level, i + 2)

RECURSIVE PairFrom(_, _)
PairFrom(level, i) ==
    IF i > Len(level) THEN <<>>
    ELSE LET left == level[i]
             right == IF i + 1 <= Len(level) THEN level[i + 1] ELSE left
         IN  <<sha256Bytes(left \o right)>> \o PairFrom(level, i + 2)

NextLevel(level) == PairFrom(level, 1)

\* for len(level) > 1 { ... level = next }; return level[0]
RECURSIVE LevelLoop(_)
LevelLoop(level) ==
    IF Len(level) > 1 THEN LevelLoop(NextLevel(level)) ELSE level[1]

\* make([]byte, 32)
ZeroDigest == [n \in 1..DigestLen |-> 0]

merkleRoot_NoSort(hashes) ==
    IF Len(hashes) = 0 THEN ZeroDigest ELSE LevelLoop(hashes)

\* lines 84-89: cp is a new slice holding the caller's digests, sort.Slice
\* reorders cp, and level starts as cp; arg is the caller's slice afterwards
SortedCopy_InPlace(hashes) == [arg |-> SortSlice(hashes), level |-> SortSlice(hashes)]

SortedCopy(hashes) == [arg |-> hashes, level |-> SortSlice(hashes)]

merkleRoot(hashes) ==
    IF Len(hashes) = 0 THEN ZeroDigest ELSE LevelLoop(SortedCopy(hashes).level)

\* the caller's slice after merkleRoot(hashes) has returned
ArgAfterCall(hashes) == IF Len(hashes) = 0 THEN hashes ELSE SortedCopy(hashes).arg

\* record hash of main: sha256Bytes(append(dataHash, attRoot...))
RecordHash_DataOnly(dHash, aRoot) ==
    IF aRoot = ZeroDigest THEN sha256Bytes(dHash) ELSE sha256Bytes(dHash \o aRoot)

RecordHash_RootFirst(dHash, aRoot) == sha256Bytes(aRoot \o dHash)

RecordHash(dHash, aRoot) == sha256Bytes(dHash \o aRoot)

\* ------------------------------------------------------ text and JSON helpers
\* fmt.Sprintf("%x", b): two lower-case hexadecimal digits per byte
HexDigit(v) == IF v < 10 THEN 48 + v ELSE 87 + v

HexOf(b) ==
    [n \in 1..(2 * Len(b)) |->
        HexDigit(IF n % 2 = 1 THEN b[(n + 1) \div 2] \div 16 ELSE b[n \div 2] % 16)]

\* simple case folding of one byte of ASCII text
FoldByte(c) == IF c >= 65 /\ c <= 90 THEN c + 32 ELSE c

EqualFold_CaseSensitive(s, t) == s = t

\* strings.EqualFold(s, t)
EqualFold(s, t) ==
    /\ Len(s) = Len(t)
    /\ \A n \in 1..Len(s) : FoldByte(s[n]) = FoldByte(t[n])

\* the key "recordHashHex", the literal null
KeyRecordHashHex == <<114, 101, 99, 111, 114, 100, 72, 97, 115, 104, 72, 101, 120>>
NullLiteral == <<110, 117, 108, 108>>

JSONError == [err |-> TRUE, obj |-> <<>>]

\* a JSON value: a string without escapes, or an unsigned integer
ParseValue(key, v) ==
    IF Len(v) >= 2 /\ v[1] = 34 /\ v[Len(v)] = 34
          /\ \A n \in 2..(Len(v) - 1) : v[n] # 34 /\ v[n] # 92 /\ v[n] >= 32
    THEN [err |-> FALSE,
          obj |-> (key :> [type |-> "string", val |-> SubSeq(v, 2, Len(v) - 1)])]
    ELSE IF Len(v) >= 1 /\ (\A n \in 1..Len(v) : v[n] >= 48 /\ v[n] <= 57)
               /\ (Len(v) = 1 \/ v[1] # 48)
    THEN [err |-> FALSE, obj |-> (key :> [type |-> "number", val |-> v])]
    ELSE JSONError

\* one member "key":value of an object
ParseMember(m) ==
    LET quotes == {n \in 2..Len(m) : m[n] = 34}
    IN  IF Len(m) < 4 \/ m[1] # 34 \/ quotes = {} THEN JSONError
        ELSE LET q == MinOf(quotes)
             IN  IF q + 2 > Len(m) \/ m[q + 1] # 58 THEN JSONError
                 ELSE ParseValue(SubSeq(m, 2, q - 1), SubSeq(m, q + 2, Len(m)))

\* json.Unmarshal(contents, &obj) with obj a map[string]interface{}, on the
\* JSON texts of the model: null, {} and objects of one member, written
\* without white space; every other byte string is a decoding error
jsonUnmarshal(contents) ==
    IF contents = NullLiteral THEN [err |-> FALSE, obj |-> <<>>]
    ELSE IF Len(contents) < 2 \/ contents[1] # 123 \/ contents[Len(contents)] # 125
    THEN JSONError
    ELSE IF Len(contents) = 2 THEN [err |-> FALSE, obj |-> <<>>]
    ELSE ParseMember(SubSeq(contents, 2, Len(contents) - 1))

\* the Subscribe message callback's decision for one message: "json" when the
\* first branch matches, "raw" when the fallback matches, "none" otherwise
MatchedEncoding_TextToo(contents, hex) ==
    LET r == jsonUnmarshal(contents)
    IN  IF /\ ~r.err
           /\ KeyRecordHashHex \in DOMAIN r.obj
           /\ r.obj[KeyRecordHashHex].type = "string"
           /\ EqualFold(r.obj[KeyRecordHashHex].val, hex)
        THEN "json"
        ELSE IF EqualFold(HexOf(contents), hex) \/ EqualFold(contents, hex) THEN "raw"
        ELSE "none"

MatchedEncoding(contents, hex) ==
    LET r == jsonUnmarshal(contents)
    IN  IF /\ ~r.err
           /\ KeyRecordHashHex \in DOMAIN r.obj
           /\ r.obj[KeyRecordHashHex].type = "string"
           /\ EqualFold(r.obj[KeyRecordHashHex].val, hex)
        THEN "json"
        ELSE IF EqualFold(HexOf(contents), hex) THEN "raw"
        ELSE "none"

\* ------------------------------------------------- messages a topic can hold
ToUpper(s) == [n \in 1..Len(s) |-> IF s[n] >= 97 /\ s[n] <= 122 THEN s[n] - 32 ELSE s[n]]
MixCase(s) == [n \in 1..Len(s) |-> IF n % 2 = 1 /\ s[n] >= 97 /\ s[n] <= 122 THEN s[n] - 32 ELSE s[n]]

JSONObject(key, valueText) == <<123, 34>> \o key \o <<34, 58>> \o valueText \o <<125>>
JSONString(s) == <<34>> \o s \o <<34>>

\* a digest other than h
OtherDigest(h) == sha256Bytes(h)

TargetKinds == {"json_lower", "json_upper", "json_mixed", "raw_digest"}
OtherKinds == {"json_other_hash", "json_number", "json_other_key", "json_null",
               "json_truncated", "raw_other", "raw_short", "hex_text"}
Kinds == TargetKinds \cup OtherKinds

\* msg.Contents of a message of each kind, for the record hash h
Payload(kind, h) ==
    CASE kind = "json_lower" -> JSONObject(KeyRecordHashHex, JSONString(HexOf(h)))
      [] kind = "json_upper" -> JSONObject(KeyRecordHashHex, JSONString(ToUpper(HexOf(h))))
      [] kind = "json_mixed" -> JSONObject(KeyRecordHashHex, JSONString(MixCase(HexOf(h))))
      [] kind = "raw_digest" -> h
      [] kind = "json_other_hash" ->
            JSONObject(KeyRecordHashHex, JSONString(HexOf(OtherDigest(h))))
      [] kind = "json_number" -> JSONObject(KeyRecordHashHex, <<52, 50>>)
      [] kind = "json_other_key" -> JSONObject(<<104, 97, 115, 104>>, JSONString(HexOf(h)))
      [] kind = "json_null" -> NullLiteral
      [] kind = "json_truncated" ->
            <<123, 34>> \o KeyRecordHashHex \o <<34, 58>> \o JSONString(HexOf(h))
      [] kind = "raw_other" -> OtherDigest(h)
      [] kind = "raw_short" -> SubSeq(h, 1, Len(h) - 1)
      [] kind = "hex_text" -> HexOf(h)

\* ------------------------------------------------------- canonical JSON
\* A JSON text and a decoded Go value are trees of records with the same four
\* fields: t is the syntactic kind ("object", "array", "string", "number",
\* "bool", "null") or the Go type ("map", "slice", "string", "Number",
\* "float64", "bool", "nil", "int", "chan"), s the bytes of a scalar (string
\* content, number literal, true/false), k the keys of a mapping in the order
\* the text gives them or range visits them, c the children.  Strings hold
\* ASCII bytes; number literals are unsigned decimals without exponent and
\* with at most 15 significant digits.
Leaf(t, s) == [t |-> t, s |-> s, k |-> <<>>, c |-> <<>>]
Node(t, k, c) == [t |-> t, s |-> <<>>, k |-> k, c |-> c]

\* result pairs ([]byte, error): return nil, err and return b, nil
Failure == [err |-> TRUE, out |-> <<>>]
Success(b) == [err |-> FALSE, out |-> b]

\* the bytes encoding/json writes for one byte of a string: the short escapes,
\* \u00XX for the other control bytes and for the HTML characters < > &
EscapeByte(ch) ==
    CASE ch = 34 -> <<92, 34>>
      [] ch = 92 -> <<92, 92>>
      [] ch = 10 -> <<92, 110>>
      [] ch = 13 -> <<92, 114>>
      [] ch = 9 -> <<92, 116>>
      [] ch < 32 \/ ch \in {60, 62, 38} ->
            <<92, 117, 48, 48, HexDigit(ch \div 16), HexDigit(ch % 16)>>
      [] OTHER -> <<ch>>

RECURSIVE EscapeFrom(_, _)
EscapeFrom(str, i) ==
    IF i > Len(str) THEN <<>> ELSE EscapeByte(str[i]) \o EscapeFrom(str, i + 1)

\* json.Marshal of a Go string
EncodeString_Bare(str) == str

EncodeString(str) == <<34>> \o EscapeFrom(str, 1) \o <<34>>

NaNText == <<78, 97, 78>>

\* json.Marshal of a value that is neither map[string]interface{} nor
\* []interface{}: a json.Number is written as the literal it holds, a float64
\* in its shortest form, a NaN and a channel are refused
jsonMarshal_Total(x) ==
    CASE x.t = "string" -> Success(EncodeString(x.s))
      [] x.t = "nil" -> Success(NullLiteral)
      [] OTHER -> Success(x.s)

jsonMarshal(x) ==
    CASE x.t = "string" -> Success(EncodeString(x.s))
      [] x.t = "nil" -> Success(NullLiteral)
      [] x.t = "float64" -> IF x.s = NaNText THEN Failure ELSE Success(x.s)
      [] x.t = "Number" -> Success(IF x.s = <<>> THEN <<48>> ELSE x.s)
      [] x.t \in {"bool", "int"} -> Success(x.s)
      [] OTHER -> Failure

\* sort.Strings(keys)
SortStrings_None(keys) == keys

SortStrings(keys) == SortSlice(keys)

\* x[k] of a map
MapIndex(x, key) == x.c[CHOOSE i \in 1..Len(x.k) : x.k[i] = key]

RECURSIVE canonicalMarshal(_), MarshalMembers(_, _, _), MarshalElems(_, _)

\* texts joined by commas, from text number i on
RECURSIVE JoinFrom(_, _)
JoinFrom(texts, i) ==
    IF i > Len(texts) THEN <<>>
    ELSE texts[i] \o (IF i < Len(texts) THEN <<44>> ELSE <<>>) \o JoinFrom(texts, i + 1)

MarshalElems_Sorted(x, i) ==
    IF \E n \in 1..Len(x.c) : canonicalMarshal(x.c[n]).err THEN Failure
    ELSE Success(JoinFrom(SortSlice([n \in 1..Len(x.c) |-> canonicalMarshal(x.c[n]).out]), i))

\* lines 33-45: the loop over the sorted keys, from key number i on; the
\* error of a value is returned at once and nothing of the builder with it
MarshalMembers(x, keys, i) ==
    IF i > Len(keys) THEN Success(<<>>)
    ELSE LET vb == canonicalMarshal(MapIndex(x, keys[i]))
         IN  IF vb.err THEN Failure
             ELSE LET rest == MarshalMembers(x, keys, i + 1)
                  IN  IF rest.err THEN Failure
                      ELSE Success(EncodeString(keys[i]) \o <<58>> \o vb.out
                                   \o (IF i < Len(keys) THEN <<44>> ELSE <<>>)
                                   \o rest.out)

\* lines 52-61: the loop over the elements, from element number i on
MarshalElems(x, i) ==
    IF i > Len(x.c) THEN Success(<<>>)
    ELSE LET vb == canonicalMarshal(x.c[i])
         IN  IF vb.err THEN Failure
             ELSE LET rest == MarshalElems(x, i + 1)
                  IN  IF rest.err THEN Failure
                      ELSE Success(vb.out \o (IF i < Len(x.c) THEN <<44>> ELSE <<>>)
                                   \o rest.out)

canonicalMarshal(v) ==
    CASE v.t = "map" ->
            LET body == MarshalMembers(v, SortStrings(v.k), 1)
            IN  IF body.err THEN Failure ELSE Success(<<123>> \o body.out \o <<125>>)
      [] v.t = "slice" ->
            LET body == MarshalElems(v, 1)
            IN  IF body.err THEN Failure ELSE Success(<<91>> \o body.out \o <<93>>)
      [] v.t \in {"string", "float64", "bool", "nil"} -> jsonMarshal(v)
      [] OTHER -> jsonMarshal(v)

\* what the decoder of loadJSONFile (dec.UseNumber) makes of a JSON value: a
\* number becomes a json.Number holding the literal as written
RECURSIVE DecodeUseNumber(_)
DecodeUseNumber(j) ==
    CASE j.t = "object" ->
            Node("map", j.k, [i \in 1..Len(j.c) |-> DecodeUseNumber(j.c[i])])
      [] j.t = "array" ->
            Node("slice", <<>>, [i \in 1..Len(j.c) |-> DecodeUseNumber(j.c[i])])
      [] j.t = "number" -> Leaf("Number", j.s)
      [] j.t = "null" -> Leaf("nil", <<>>)
      [] OTHER -> Leaf(j.t, j.s)

\* result pairs (map[string]interface{}, error)
LoadError == [err |-> TRUE, v |-> Leaf("nil", <<>>)]

\* loadJSONFile: the file must open and hold one JSON value that decodes into a
\* map: an object, or null, which leaves the map nil
loadJSONFile(file) ==
    CASE file.t = "object" -> [err |-> FALSE, v |-> DecodeUseNumber(file)]
      [] file.t = "null" -> [err |-> FALSE, v |-> Node("map", <<>>, <<>>)]
      [] OTHER -> LoadError

\* -------------------------------------------------------------------- state
VARIABLES
    \* flags and files of one verifier run
    dataPath,       \* -data
    dataFile,       \* what the file at dataPath holds
    attFiles,       \* contents of the files named by -att, in flag order
    attFail,        \* position in -att of the first file that cannot be read, 0 if none
    topicIDStr,     \* -topic-id
    startRFC3339,   \* -start
    timeoutSec,     \* -timeout
    \* locals of main
    pc,             \* position of main
    canon,          \* canonical bytes of the data
    dataHash, attHashes, attRoot, recordHash, recordHashHex,
    printed,        \* the recordHashHex line written to stdout, <<>> before
    ctxErr,         \* ctx.Err(): "nil", "Canceled" or "DeadlineExceeded"
    elapsed,        \* seconds since context.WithTimeout
    found,
    subErr,         \* Subscribe returned a non-nil error
    exit,           \* exit code of the process, -1 while it runs
    \* the subscription (SDK goroutine)
    stream,         \* "none", "active" or "failed"
    seq,            \* sequence number of the last message delivered
    inflight,       \* messages delivered after ctx was done
    cbpc,           \* position of the message callback
    cur,            \* the message last handed to the callback; see KeptKind
    \* output
    reports,        \* "Match found" blocks printed: sequenceNumber, consensusTimestamp,
                    \* and whether the context was still live at the print
    notFound,       \* "No matching message found" printed
    stderr,         \* error lines printed
    \* history
    firstMatch,     \* sequence number of the first delivered message that carries the hash
    failedEarly,    \* a stream failure reached main or the error callback before
                    \* any match and before the deadline
    \* merkleRoot called on its own (MerkleSpec)
    mpc, mHashes, mPerm, mRoot, mRootPerm,
    mArg,           \* the caller's slice of digests after the call
    \* canonicalMarshal called on its own (CanonSpec)
    cpc,            \* position of the caller
    cSrc,           \* "file": cIn is a JSON text to load; "value": cIn is a Go value
    cIn,            \* the input
    cRes,           \* result of canonicalMarshal on the input
    cAlt,           \* a second input made from cIn
    cResAlt,        \* result of canonicalMarshal on the second input
    cHex, cHexServer \* recordHashHex of the verifier and of the ingestion server

inputVars == <<dataPath, dataFile, attFiles, attFail, topicIDStr, startRFC3339, timeoutSec>>
hashVars == <<canon, dataHash, attHashes, attRoot, recordHash, recordHashHex, printed>>
searchVars == <<ctxErr, elapsed, found, subErr, stream, seq, inflight, cbpc, cur,
                reports, notFound, stderr, firstMatch, failedEarly>>
merkleVars == <<mpc, mHashes, mPerm, mRoot, mRootPerm, mArg>>
canonVars == <<cpc, cSrc, cIn, cRes, cAlt, cResAlt, cHex, cHexServer>>
pureVars == <<merkleVars, canonVars>>
vars == <<inputVars, pc, exit, hashVars, searchVars, pureVars>>

\* line 193: topicIDStr == "" ends the run after the hash is printed
topicGiven_Always == TRUE

topicGiven == topicIDStr # ""

SeqsUpTo(S, n) == UNION {[1..k -> S] : k \in 0..n}

TextIncome == <<105, 110, 99, 111, 109, 101>>
TextHhId == <<104, 104, 95, 105, 100>>
TextZA0001 == <<90, 65, 45, 48, 48, 48, 49>>
Text1234p5 == <<49, 50, 51, 52, 46, 53>>

\* the data file {"income":1234.5,"hh_id":"ZA-0001"}
ExampleData ==
    Node("object", <<TextIncome, TextHhId>>,
         <<Leaf("number", Text1234p5), Leaf("string", TextZA0001)>>)

\* data files of a run: the example, a path that does not open, a file that
\* holds a JSON array
DataInputs == {ExampleData, Leaf("absent", <<>>), Node("array", <<>>, <<>>)}
\* -att lists of a run: none, one file, two files given in descending order
\* of their digests' inputs; every file has one byte of content
RunAttInputs == {<<>>, <<<<1>>>>, <<<<2>>, <<1>>>>}
TopicInputs == {"", "0.0.1234567", "not-a-topic"}
StartInputs == {"", "2025-08-18T00:00:00Z", "yesterday"}

\* hedera.TopicIDFromString and time.Parse(time.RFC3339, _) succeed
TopicIDValid(str) == str = "0.0.1234567"
RFC3339Valid(str) == str = "2025-08-18T00:00:00Z"

NoMessage == [seq |-> 0, ts |-> 0, kind |-> "none", enc |-> "none"]

\* consensus timestamp the log assigned to message number n
ConsensusTimestamp(n) == 1000 + n

\* locals and outputs of a run before main starts
MainIdle ==
    /\ canon = <<>> /\ dataHash = <<>> /\ attHashes = <<>> /\ attRoot = <<>>
    /\ recordHash = <<>> /\ recordHashHex = <<>> /\ printed = <<>>
    /\ ctxErr = "nil" /\ elapsed = 0
    /\ found = FALSE /\ subErr = FALSE /\ exit = -1
    /\ stream = "none" /\ seq = 0 /\ inflight = 0
    /\ cbpc = "idle" /\ cur = NoMessage
    /\ reports = <<>> /\ notFound = FALSE /\ stderr = {}
    /\ firstMatch = 0 /\ failedEarly = FALSE

MerkleIdle ==
    /\ mpc = "off" /\ mHashes = <<>> /\ mPerm = <<>> /\ mRoot = <<>> /\ mRootPerm = <<>>
    /\ mArg = <<>>

NoResult == [err |-> FALSE, out |-> <<>>]

CanonIdle ==
    /\ cpc = "off" /\ cSrc = "none" /\ cIn = Leaf("nil", <<>>) /\ cRes = NoResult
    /\ cAlt = Leaf("nil", <<>>) /\ cResAlt = NoResult /\ cHex = <<>> /\ cHexServer = <<>>

Init ==
    /\ dataPath \in {"", "data.json"}
    /\ dataFile \in DataInputs
    /\ attFiles \in RunAttInputs
    /\ attFail \in 0..Len(attFiles)
    /\ topicIDStr \in TopicInputs
    /\ startRFC3339 \in StartInputs
    /\ timeoutSec \in 0..MaxTimeout
    /\ pc = "start"
    /\ MainIdle /\ MerkleIdle /\ CanonIdle

\* ----------------------------------------------------------------- main
\* the process ends with the given code after writing a line to stderr
Fail(code, line) == pc' = "done" /\ exit' = code /\ stderr' = stderr \cup {line}

\* lines 171-172: readFileBytes returns an error for one of the files
AttReadFails_Never == FALSE

AttReadFails == attFail # 0

\* lines 149-195: check -data, load and canonicalize the data, hash it and
\* the attachments, print the record hash, return when no topic is given
ComputeHash ==
    /\ pc = "start"
    /\ LET loaded == loadJSONFile(dataFile)
           res == canonicalMarshal(loaded.v)
           dHash == sha256Bytes(res.out)
           nRead == IF attFail = 0 THEN Len(attFiles) ELSE attFail - 1
           aHashes == [k \in 1..nRead |-> sha256Bytes(attFiles[k])]
           aRoot == merkleRoot(aHashes)
           rHash == RecordHash(dHash, aRoot)
       IN  IF dataPath = ""
           THEN /\ Fail(2, "Error: -data is required")
                /\ UNCHANGED hashVars
           ELSE IF loaded.err
           THEN /\ Fail(1, "Failed to read data JSON")
                /\ UNCHANGED hashVars
           ELSE IF res.err
           THEN /\ Fail(1, "Canonicalization failed")
                /\ UNCHANGED hashVars
           ELSE IF AttReadFails
           THEN /\ Fail(1, "Failed to read attachment")
                /\ canon' = res.out /\ dataHash' = dHash /\ attHashes' = aHashes
                /\ UNCHANGED <<attRoot, recordHash, recordHashHex, printed>>
           ELSE /\ canon' = res.out /\ dataHash' = dHash
                /\ attHashes' = ArgAfterCall(aHashes)
                /\ attRoot' = aRoot /\ recordHash' = rHash
                /\ recordHashHex' = HexOf(rHash) /\ printed' = HexOf(rHash)
                /\ IF topicGiven
                   THEN pc' = "client" /\ exit' = exit
                   ELSE pc' = "done" /\ exit' = 0
                /\ stderr' = stderr
    /\ UNCHANGED <<inputVars, ctxErr, elapsed, found, subErr, stream, seq, inflight, cbpc,
                   cur, reports, notFound, firstMatch, failedEarly, pureVars>>

\* lines 198-217: the client and the query; a topic ID or a start time that
\* does not parse ends the run
PrepareQuery ==
    /\ pc = "client"
    /\ IF ~TopicIDValid(topicIDStr)
       THEN Fail(1, "Invalid topic ID")
       ELSE IF startRFC3339 # "" /\ ~RFC3339Valid(startRFC3339)
       THEN Fail(1, "Invalid -start time (RFC3339)")
       ELSE pc' = "mkctx" /\ exit' = exit /\ stderr' = stderr
    /\ UNCHANGED <<inputVars, hashVars, ctxErr, elapsed, found, subErr, stream, seq,
                   inflight, cbpc, cur, reports, notFound, firstMatch, failedEarly,
                   pureVars>>

\* line 219: context.WithTimeout(context.Background(), timeoutSec seconds);
\* a budget that is not positive gives a context that is already expired
WithTimeout ==
    /\ pc = "mkctx"
    /\ pc' = "subscribe"
    /\ ctxErr' = IF timeoutSec <= 0 THEN "DeadlineExceeded" ELSE "nil"
    /\ elapsed' = 0
    /\ UNCHANGED <<inputVars, exit, hashVars, found, subErr, stream, seq, inflight, cbpc,
                   cur, reports, notFound, stderr, firstMatch, failedEarly, pureVars>>

CtxLive == pc \in {"subscribe", "suberr", "wait", "check"}

\* one second passes before the deadline
Tick ==
    /\ CtxLive
    /\ ctxErr = "nil"
    /\ elapsed < timeoutSec
    /\ elapsed' = elapsed + 1
    /\ UNCHANGED <<inputVars, pc, exit, hashVars, ctxErr, found, subErr, stream, seq,
                   inflight, cbpc, cur, reports, notFound, stderr, firstMatch,
                   failedEarly, pureVars>>

\* the timer of the context fires at the deadline
TimerFire ==
    /\ CtxLive
    /\ ctxErr = "nil"
    /\ elapsed >= timeoutSec
    /\ ctxErr' = "DeadlineExceeded"
    /\ UNCHANGED <<inputVars, pc, exit, hashVars, elapsed, found, subErr, stream, seq,
                   inflight, cbpc, cur, reports, notFound, stderr, firstMatch,
                   failedEarly, pureVars>>

\* line 225: q.Subscribe(ctx, client, onMessage, onError) returns; the SDK
\* either starts the stream or reports an error
Subscribe ==
    /\ pc = "subscribe"
    /\ \E ok \in BOOLEAN :
          /\ subErr' = ~ok
          /\ stream' = IF ok THEN "active" ELSE "none"
    /\ pc' = "suberr"
    /\ UNCHANGED <<inputVars, exit, hashVars, ctxErr, elapsed, found, seq, inflight, cbpc,
                   cur, reports, notFound, stderr, firstMatch, failedEarly, pureVars>>

\* lines 254-257: if err != nil && ctx.Err() == nil { "Subscribe failed"; os.Exit(1) }
CheckSubscribeErr_NoCtxTest ==
    /\ pc = "suberr"
    /\ IF subErr
       THEN /\ stderr' = stderr \cup {"Subscribe failed"}
            /\ exit' = 1
            /\ pc' = "done"
       ELSE /\ pc' = "wait"
            /\ UNCHANGED <<stderr, exit>>
    /\ failedEarly' = (failedEarly \/ (subErr /\ ctxErr = "nil" /\ elapsed < timeoutSec))
    /\ UNCHANGED <<inputVars, hashVars, ctxErr, elapsed, found, subErr, stream, seq,
                   inflight, cbpc, cur, reports, notFound, firstMatch, pureVars>>

CheckSubscribeErr ==
    /\ pc = "suberr"
    /\ IF subErr /\ ctxErr = "nil"
       THEN /\ stderr' = stderr \cup {"Subscribe failed"}
            /\ exit' = 1
            /\ pc' = "done"
       ELSE /\ pc' = "wait"
            /\ UNCHANGED <<stderr, exit>>
    /\ failedEarly' = (failedEarly \/ (subErr /\ ctxErr = "nil" /\ elapsed < timeoutSec))
    /\ UNCHANGED <<inputVars, hashVars, ctxErr, elapsed, found, subErr, stream, seq,
                   inflight, cbpc, cur, reports, notFound, firstMatch, pureVars>>

\* line 259: <-ctx.Done()
MainWait_CancelOnly ==
    /\ pc = "wait"
    /\ ctxErr = "Canceled"
    /\ pc' = "check"
    /\ UNCHANGED <<inputVars, exit, hashVars, searchVars, pureVars>>

MainWait ==
    /\ pc = "wait"
    /\ ctxErr # "nil"
    /\ pc' = "check"
    /\ UNCHANGED <<inputVars, exit, hashVars, searchVars, pureVars>>

\* The values the read of found at line 260 can give. The callback writes
\* found on the SDK goroutine; the write is ordered before the read only by
\* the callback's own cancel() closing ctx.Done(). When the deadline closed
\* it, the read races with the write and may still see false.
FoundReads == IF found /\ ctxErr = "DeadlineExceeded" THEN {TRUE, FALSE} ELSE {found}

\* lines 260-264: if !found { "No matching message found"; os.Exit(3) }; return
MainCheck ==
    /\ pc = "check"
    /\ \E seen \in FoundReads :
          IF seen
          THEN exit' = 0 /\ notFound' = notFound
          ELSE exit' = 3 /\ notFound' = TRUE
    /\ pc' = "done"
    /\ UNCHANGED <<inputVars, hashVars, ctxErr, elapsed, found, subErr, stream, seq,
                   inflight, cbpc, cur, reports, stderr, firstMatch, failedEarly,
                   pureVars>>

\* ------------------------------------------------ subscription (SDK goroutine)
Alive == pc # "done"

\* The stream hands the next message of the topic to the message callback
\* (lines 225-230, 239-240): one message at a time, in sequence order. After
\* ctx is done only messages already in flight arrive. Past MaxSeq the topic
\* holds only messages that do not carry the hash, and their sequence numbers
\* are all written MaxSeq + 1. A message that matches neither encoding is
\* dropped at once; for a matching one the callback goes on to print.
\* lines 230 and 240: where the callback goes after its two tests
CallbackNext_NeverDiscards(enc) == "print"

CallbackNext(enc) == IF enc # "none" THEN "print" ELSE "idle"

\* what cur keeps of the kind of a message: the kind of one that carries the
\* hash or was matched; "hex_text_only" for a hex-text posting when every
\* message delivered before it was one too; "other" for the rest
KeptKind(kind, enc) ==
    IF kind \in TargetKinds \/ enc # "none" THEN kind
    ELSE IF kind = "hex_text" /\ (cur = NoMessage \/ cur.kind = "hex_text_only")
    THEN "hex_text_only"
    ELSE "other"

Deliver ==
    /\ Alive
    /\ stream = "active"
    /\ cbpc = "idle"
    /\ ctxErr = "nil" \/ inflight < MaxInFlight
    /\ \E kind \in (IF seq < MaxSeq THEN Kinds ELSE OtherKinds) :
          LET n == IF seq < MaxSeq THEN seq + 1 ELSE MaxSeq + 1
              enc == MatchedEncoding(Payload(kind, recordHash), recordHashHex)
          IN  /\ seq' = n
              /\ cur' = [seq |-> n, ts |-> ConsensusTimestamp(n), enc |-> enc,
                         kind |-> KeptKind(kind, enc)]
              /\ cbpc' = CallbackNext(enc)
              /\ firstMatch' = IF firstMatch = 0 /\ kind \in TargetKinds THEN n ELSE firstMatch
    /\ inflight' = IF ctxErr # "nil" THEN inflight + 1 ELSE inflight
    /\ UNCHANGED <<inputVars, pc, exit, hashVars, ctxErr, elapsed, found, subErr, stream,
                   reports, notFound, stderr, failedEarly, pureVars>>

\* lines 231-233 and 241-243: the "Match found" line, sequenceNumber, consensusTimestamp
CbPrint ==
    /\ Alive
    /\ cbpc = "print"
    /\ reports' = Append(reports, [seq |-> cur.seq, ts |-> cur.ts, enc |-> cur.enc,
                                   live |-> ctxErr = "nil"])
    /\ cbpc' = "set"
    /\ UNCHANGED <<inputVars, pc, exit, hashVars, ctxErr, elapsed, found, subErr, stream,
                   seq, inflight, cur, notFound, stderr, firstMatch, failedEarly,
                   pureVars>>

\* lines 234 and 244: found = true
CbSetFound_NoCancel ==
    /\ Alive
    /\ cbpc = "set"
    /\ found' = TRUE
    /\ cbpc' = "idle"
    /\ UNCHANGED <<inputVars, pc, exit, hashVars, ctxErr, elapsed, subErr, stream, seq,
                   inflight, cur, reports, notFound, stderr, firstMatch, failedEarly,
                   pureVars>>

CbSetFound ==
    /\ Alive
    /\ cbpc = "set"
    /\ found' = TRUE
    /\ cbpc' = "cancel"
    /\ UNCHANGED <<inputVars, pc, exit, hashVars, ctxErr, elapsed, subErr, stream, seq,
                   inflight, cur, reports, notFound, stderr, firstMatch, failedEarly,
                   pureVars>>

\* lines 235-236 and 245-246: cancel(); return
CbCancel ==
    /\ Alive
    /\ cbpc = "cancel"
    /\ ctxErr' = IF ctxErr = "nil" THEN "Canceled" ELSE ctxErr
    /\ cbpc' = "idle"
    /\ UNCHANGED <<inputVars, pc, exit, hashVars, elapsed, found, subErr, stream, seq,
                   inflight, cur, reports, notFound, stderr, firstMatch, failedEarly,
                   pureVars>>

\* lines 248-253: the stream fails and the SDK calls the error callback, which
\* prints "Subscription error" unless ctx is done, and does nothing else
ErrCb ==
    /\ Alive
    /\ stream = "active"
    /\ cbpc = "idle"
    /\ stream' = "failed"
    /\ stderr' = IF ctxErr = "nil" THEN stderr \cup {"Subscription error"} ELSE stderr
    /\ failedEarly' = (ctxErr = "nil" /\ firstMatch = 0 /\ elapsed < timeoutSec)
    /\ UNCHANGED <<inputVars, pc, exit, hashVars, ctxErr, elapsed, found, subErr, seq,
                   inflight, cbpc, cur, reports, notFound, firstMatch, pureVars>>

\* the steps of main from the start of the search (line 219) on
SearchStep == PrepareQuery \/ WithTimeout \/ Subscribe \/ CheckSubscribeErr \/ MainWait \/ MainCheck

Next ==
    \/ ComputeHash
    \/ PrepareQuery
    \/ WithTimeout
    \/ Tick
    \/ TimerFire
    \/ Subscribe
    \/ CheckSubscribeErr
    \/ MainWait
    \/ MainCheck
    \/ Deliver
    \/ CbPrint
    \/ CbSetFound
    \/ CbCancel
    \/ ErrCb

Spec == Init /\ [][Next]_vars

\* The Go scheduler runs main whenever it can take a step, time passes, and
\* the runtime fires the context's timer once the deadline is reached.
FairSpec ==
    /\ Spec
    /\ WF_vars(SearchStep)
    /\ WF_vars(Tick)
    /\ WF_vars(TimerFire)

\* ------------------------------------------------- merkleRoot called on its own
Digests == {sha256Bytes(<<b>>) : b \in 1..NumBlobs}

Perms(n) == {f \in [1..n -> 1..n] : \A i, j \in 1..n : f[i] = f[j] => i = j}

MerkleInit ==
    /\ mpc = "init"
    /\ mHashes \in SeqsUpTo(Digests, MaxAtt)
    /\ mPerm = <<>> /\ mRoot = <<>> /\ mRootPerm = <<>> /\ mArg = <<>>
    /\ dataPath = "" /\ dataFile = Leaf("absent", <<>>) /\ attFiles = <<>> /\ attFail = 0
    /\ topicIDStr = "" /\ startRFC3339 = "" /\ timeoutSec = 0
    /\ pc = "off"
    /\ MainIdle /\ CanonIdle

\* root := merkleRoot(hashes)
MerkleCall ==
    /\ mpc = "init"
    /\ mRoot' = merkleRoot(mHashes)
    /\ mArg' = ArgAfterCall(mHashes)
    /\ mpc' = "rooted"
    /\ UNCHANGED <<mHashes, mPerm, mRootPerm>>
    /\ UNCHANGED <<inputVars, pc, exit, hashVars, searchVars, canonVars>>

\* merkleRoot called again on the same digests submitted in another order
MerkleCallPermuted ==
    /\ mpc = "rooted"
    /\ \E f \in Perms(Len(mHashes)) :
          /\ mPerm' = [k \in 1..Len(mHashes) |-> mHashes[f[k]]]
          /\ mRootPerm' = merkleRoot(mPerm')
    /\ mpc' = "permuted"
    /\ UNCHANGED <<mHashes, mRoot, mArg>>
    /\ UNCHANGED <<inputVars, pc, exit, hashVars, searchVars, canonVars>>

MerkleNext == MerkleCall \/ MerkleCallPermuted

MerkleSpec == MerkleInit /\ [][MerkleNext]_vars

\* ------------------------------------------- canonicalMarshal on its own
TextA == <<97>>
TextB == <<98>>
TextM == <<109>>
TextZ == <<122>>
Text1234p500 == <<49, 50, 51, 52, 46, 53, 48, 48>>
\* the three characters a " <
TextEscaped == <<97, 34, 60>>
TextTrue == <<116, 114, 117, 101>>
Text7 == <<55>>

\* scalar values of a JSON text
LeafPool ==
    <<Leaf("number", Text1234p5), Leaf("string", TextZA0001),
      Leaf("number", Text1234p500), Leaf("string", TextEscaped),
      Leaf("bool", TextTrue), Leaf("null", <<>>)>>
Leaves == {LeafPool[i] : i \in 1..MinOf({NumLeaves, Len(LeafPool)})}

\* data files: flat objects, among them the example, and objects that hold a
\* mapping inside a sequence and a mapping inside a mapping
FileInputs ==
    {Node("object", <<TextIncome, TextHhId>>, <<x, y>>) : x, y \in Leaves}
    \cup {Node("object", <<TextZ, TextM>>,
               <<Node("array", <<>>, <<Node("object", <<TextB, TextA>>, <<x, y>>), x>>),
                 Node("object", <<TextB, TextA>>, <<y, x>>)>>) : x, y \in Leaves}

\* Go values handed to canonicalMarshal directly: the types of its switch, an
\* int and a channel, alone, in a slice and in a map that holds a slice
GoLeaves ==
    {Leaf("string", TextZA0001), Leaf("float64", Text1234p5), Leaf("float64", NaNText),
     Leaf("bool", TextTrue), Leaf("nil", <<>>), Leaf("int", Text7), Leaf("chan", <<>>)}
ValueInputs ==
    GoLeaves
    \cup {Node("slice", <<>>, <<x, y>>) : x, y \in GoLeaves}
    \cup {Node("map", <<TextB, TextA>>, <<x, Node("slice", <<>>, <<y>>)>>) :
             x, y \in GoLeaves}

\* the same tree with the keys of every mapping in another order
RECURSIVE Reorderings(_)
Reorderings(v) ==
    LET n == Len(v.c)
        kids == [i \in 1..n |-> Reorderings(v.c[i])]
        choices == {ch \in [1..n -> UNION {kids[i] : i \in 1..n}] :
                        \A i \in 1..n : ch[i] \in kids[i]}
    IN  IF n = 0 THEN {v}
        ELSE IF v.t \in {"object", "map"}
        THEN {[v EXCEPT !.k = [i \in 1..n |-> v.k[f[i]]],
                        !.c = [i \in 1..n |-> ch[f[i]]]] : f \in Perms(n), ch \in choices}
        ELSE {[v EXCEPT !.c = ch] : ch \in choices}

\* other ways to write the number of a literal in a JSON text: one more
\* zero after the fraction, one zero less, .0 after an integer
HasDot(lit) == \E i \in 1..Len(lit) : lit[i] = 46
Spellings(lit) ==
    {lit}
    \cup (IF HasDot(lit) THEN {lit \o <<48>>} ELSE {lit \o <<46, 48>>})
    \cup (IF HasDot(lit) /\ lit[Len(lit)] = 48 /\ lit[Len(lit) - 1] # 46
          THEN {SubSeq(lit, 1, Len(lit) - 1)} ELSE {})

\* the same JSON text with its numbers written in another way
RECURSIVE Respellings(_)
Respellings(j) ==
    LET n == Len(j.c)
        kids == [i \in 1..n |-> Respellings(j.c[i])]
        choices == {ch \in [1..n -> UNION {kids[i] : i \in 1..n}] :
                        \A i \in 1..n : ch[i] \in kids[i]}
    IN  IF j.t = "number" THEN {[j EXCEPT !.s = lit] : lit \in Spellings(j.s)}
        ELSE IF n = 0 THEN {j}
        ELSE {[j EXCEPT !.c = ch] : ch \in choices}

\* the ingestion server of the README decodes the submission without
\* UseNumber: a number becomes a float64, which encoding/json writes in its
\* shortest form, for the literals used here the literal without the zeros
\* that end its fraction
FormatFloat(lit) ==
    IF ~HasDot(lit) THEN lit
    ELSE LET d == CHOOSE i \in 1..Len(lit) : lit[i] = 46
             e == CHOOSE i \in d..Len(lit) :
                      /\ lit[i] # 48
                      /\ \A m \in (i + 1)..Len(lit) : lit[m] = 48
         IN  IF e = d THEN SubSeq(lit, 1, d - 1) ELSE SubSeq(lit, 1, e)

RECURSIVE DecodeFloat64(_)
DecodeFloat64(j) ==
    CASE j.t = "object" ->
            Node("map", j.k, [i \in 1..Len(j.c) |-> DecodeFloat64(j.c[i])])
      [] j.t = "array" ->
            Node("slice", <<>>, [i \in 1..Len(j.c) |-> DecodeFloat64(j.c[i])])
      [] j.t = "number" -> Leaf("float64", FormatFloat(j.s))
      [] j.t = "null" -> Leaf("nil", <<>>)
      [] OTHER -> Leaf(j.t, j.s)

\* recordHashHex of the webhook handler for a submission with the given data
\* and attachment contents
ServerRecordHashHex(data, contents) ==
    LET canonical == canonicalMarshal(DecodeFloat64(data)).out
        attDigests == [i \in 1..Len(contents) |-> sha256Bytes(contents[i])]
    IN  HexOf(RecordHash(sha256Bytes(canonical), merkleRoot(attDigests)))

\* recordHashHex of main for the same data and attachments
VerifierRecordHashHex(data, contents) ==
    LET canonical == canonicalMarshal(loadJSONFile(data).v).out
        attDigests == [i \in 1..Len(contents) |-> sha256Bytes(contents[i])]
    IN  HexOf(RecordHash(sha256Bytes(canonical), merkleRoot(attDigests)))

\* the same tree with the elements of every sequence in another order
RECURSIVE Shufflings(_)
Shufflings(v) ==
    LET n == Len(v.c)
        kids == [i \in 1..n |-> Shufflings(v.c[i])]
        choices == {ch \in [1..n -> UNION {kids[i] : i \in 1..n}] :
                        \A i \in 1..n : ch[i] \in kids[i]}
    IN  IF n = 0 THEN {v}
        ELSE IF v.t \in {"array", "slice"}
        THEN {[v EXCEPT !.c = [i \in 1..n |-> ch[f[i]]]] : f \in Perms(n), ch \in choices}
        ELSE {[v EXCEPT !.c = ch] : ch \in choices}

\* canonicalMarshal(data) of main for a file, canonicalMarshal(v) for a value
Canonicalize(src, in) ==
    IF src = "file" THEN canonicalMarshal(loadJSONFile(in).v) ELSE canonicalMarshal(in)

CanonInit ==
    /\ cpc = "init"
    /\ \/ cSrc = "file" /\ cIn \in FileInputs
       \/ cSrc = "value" /\ cIn \in ValueInputs
    /\ cRes = NoResult /\ cAlt = Leaf("nil", <<>>) /\ cResAlt = NoResult
    /\ cHex = <<>> /\ cHexServer = <<>>
    /\ dataPath = "" /\ dataFile = Leaf("absent", <<>>) /\ attFiles = <<>> /\ attFail = 0
    /\ topicIDStr = "" /\ startRFC3339 = "" /\ timeoutSec = 0
    /\ pc = "off"
    /\ MainIdle /\ MerkleIdle

\* b, err := canonicalMarshal(v)
CanonCall ==
    /\ cpc = "init"
    /\ cRes' = Canonicalize(cSrc, cIn)
    /\ cpc' = "called"
    /\ UNCHANGED <<cSrc, cIn, cAlt, cResAlt, cHex, cHexServer>>
    /\ UNCHANGED <<inputVars, pc, exit, hashVars, searchVars, merkleVars>>

\* canonicalMarshal called again on the same value with the keys of its
\* mappings met in another order
CanonCallReordered ==
    /\ cpc = "called"
    /\ \E alt \in Reorderings(cIn) :
          /\ cAlt' = alt
          /\ cResAlt' = Canonicalize(cSrc, alt)
    /\ cpc' = "reordered"
    /\ UNCHANGED <<cSrc, cIn, cRes, cHex, cHexServer>>
    /\ UNCHANGED <<inputVars, pc, exit, hashVars, searchVars, merkleVars>>

\* a second data file that differs from the first only in the way its
\* numbers are written, loaded and canonicalized
CanonCallRespelled ==
    /\ cpc = "called" /\ cSrc = "file"
    /\ \E alt \in Respellings(cIn) :
          /\ cAlt' = alt
          /\ cResAlt' = Canonicalize(cSrc, alt)
    /\ cpc' = "respelled"
    /\ UNCHANGED <<cSrc, cIn, cRes, cHex, cHexServer>>
    /\ UNCHANGED <<inputVars, pc, exit, hashVars, searchVars, merkleVars>>

\* the record is posted by the ingestion server and verified by the verifier
ServerIngest ==
    /\ cpc = "called" /\ cSrc = "file"
    /\ \E contents \in RunAttInputs :
          /\ cHexServer' = ServerRecordHashHex(cIn, contents)
          /\ cHex' = VerifierRecordHashHex(cIn, contents)
    /\ cAlt' = DecodeFloat64(cIn)
    /\ cResAlt' = canonicalMarshal(cAlt')
    /\ cpc' = "served"
    /\ UNCHANGED <<cSrc, cIn, cRes>>
    /\ UNCHANGED <<inputVars, pc, exit, hashVars, searchVars, merkleVars>>

\* canonicalMarshal called on a value that differs from the first in the
\* order of the elements of its sequences
CanonCallShuffled ==
    /\ cpc = "called"
    /\ \E alt \in Shufflings(cIn) :
          /\ cAlt' = alt
          /\ cResAlt' = Canonicalize(cSrc, alt)
    /\ cpc' = "shuffled"
    /\ UNCHANGED <<cSrc, cIn, cRes, cHex, cHexServer>>
    /\ UNCHANGED <<inputVars, pc, exit, hashVars, searchVars, merkleVars>>

CanonNext ==
    \/ CanonCall
    \/ CanonCallReordered
    \/ CanonCallRespelled
    \/ ServerIngest
    \/ CanonCallShuffled

CanonSpec == CanonInit /\ [][CanonNext]_vars

\* ------------------------------------------------------------------ claims
\* the context of the search exists: main is between WithTimeout and its end
\* after Subscribe was called
Searching ==
    /\ topicGiven
    /\ \/ pc \in {"subscribe", "suberr", "wait", "check"}
       \/ pc = "done" /\ (stream # "none" \/ subErr)

\* C1: a delivered message is taken as a match exactly when it carries the
\* target hash, as a JSON object whose string field recordHashHex is the hex
\* text in any letter case (reported as a JSON match) or as the raw digest
\* bytes (reported as a raw match); found is set only after such a message,
\* and is set once the callback has handled one.
C1_MatchIffCarriesHash ==
    /\ cur.seq > 0 =>
          /\ (cur.enc # "none") <=> (cur.kind \in TargetKinds)
          /\ cur.kind \in {"json_lower", "json_upper", "json_mixed"} => cur.enc = "json"
          /\ cur.kind = "raw_digest" => cur.enc = "raw"
    /\ (found \/ reports # <<>>) => firstMatch > 0
    /\ (cur.kind \in TargetKinds /\ cbpc = "idle") => found

C1_Witness == found /\ cur.kind = "json_upper" /\ cur.enc = "json" /\ cbpc = "idle"

\* C2 (as claimed): a run whose stream failed before any match and before the
\* deadline does not end with the not-found result (message and exit code 3).
C2_StreamFailureIsNotNotFound ==
    (pc = "done" /\ failedEarly) => (exit # 3 /\ ~notFound)

\* C3 (as claimed): a run never both prints a "Match found" block and ends
\* with the not-found outcome, exit code 3.
C3_OutcomesExclusive == ~(reports # <<>> /\ exit = 3)

\* C4 (as claimed): at most one message is reported as a match, and it is the
\* first delivered message that carries the hash, with its own sequence
\* number and consensus timestamp.
C4_OnlyFirstMatchReported ==
    /\ Len(reports) <= 1
    /\ reports # <<>> =>
          /\ reports[1].seq = firstMatch
          /\ reports[1].ts = ConsensusTimestamp(firstMatch)

\* C5: once the callback has handled a match the context is cancelled, the
\* search returns success only with the context cancelled, and a stream that
\* stops on cancellation delivers no more than the messages in flight after
\* the first match, so it is not drained to its end.
C5_CancelSignalledOnMatch ==
    /\ (found /\ cbpc = "idle") => ctxErr # "nil"
    /\ (Searching /\ pc = "done" /\ exit = 0) => ctxErr # "nil"
    /\ firstMatch > 0 => seq <= firstMatch + MaxInFlight

C5_Witness ==
    /\ pc = "done" /\ exit = 0 /\ ctxErr = "Canceled"
    /\ firstMatch = 1 /\ seq = 1 + MaxInFlight /\ seq < MaxSeq

\* C6: every search that has been started reaches the end of main with an
\* exit code, whatever the stream delivers or reports.
C6_SearchTerminates == (pc = "subscribe") ~> (pc = "done" /\ exit \in {0, 1, 3})

C6_Witness ==
    /\ pc = "done" /\ exit = 3 /\ topicGiven /\ timeoutSec > 0
    /\ firstMatch = 0 /\ seq > MaxSeq

\* C7: with a time budget of 0 the context is expired from the start, so the
\* wait does not block; if no message carrying the hash was delivered the run
\* ends not-found with exit code 3, and a Subscribe error is never reported.
C7_ZeroBudgetTimesOut ==
    (Searching /\ timeoutSec = 0) =>
        /\ ctxErr # "nil" /\ elapsed = 0
        /\ exit # 1 /\ stderr = {}
        /\ (pc = "done" /\ firstMatch = 0) => (exit = 3 /\ notFound)

C7_Witness == timeoutSec = 0 /\ pc = "done" /\ subErr /\ exit = 3

\* C8 (as claimed): for a single digest d, merkleRoot([d]) = hash(d || d),
\* which is not d itself.
C8_SingleLeafIsPaired ==
    (mpc # "init" /\ Len(mHashes) = 1) =>
        /\ mRoot = sha256Bytes(mHashes[1] \o mHashes[1])
        /\ mRoot # mHashes[1]

\* C9: merkleRoot gives the same root for every order of the same digests.
C9_OrderInsensitive == mpc = "permuted" => mRootPerm = mRoot

C9_Witness ==
    /\ mpc = "permuted" /\ Len(mHashes) = 3
    /\ mPerm # mHashes
    /\ mHashes[1] # mHashes[2] /\ mHashes[2] # mHashes[3] /\ mHashes[1] # mHashes[3]

\* C10: with no attachments the attachment root is 32 zero bytes, and the
\* record hash is the hash of the data digest followed by those 32 bytes,
\* not the hash of the data digest alone.
C10_EmptyRootIsZero ==
    (pc \notin {"start", "off"} /\ attFiles = <<>>
        /\ dataPath # "" /\ ~loadJSONFile(dataFile).err) =>
        /\ Len(attRoot) = 32
        /\ \A n \in 1..32 : attRoot[n] = 0
        /\ recordHash = sha256Bytes(dataHash \o [n \in 1..32 |-> 0])
        /\ recordHash # sha256Bytes(dataHash)

C10_Witness == pc = "done" /\ attFiles = <<>> /\ Len(recordHashHex) = 64

\* C11: the record hash is the hash of the 64 bytes made of the data digest
\* followed by the attachment root, where the data digest is the hash of the
\* canonical bytes and the root is merkleRoot of the attachment digests
C11_FingerprintIsDataThenRoot ==
    (pc \notin {"start", "off"} /\ recordHash # <<>>) =>
        /\ dataHash = sha256Bytes(canon)
        /\ attHashes = [k \in 1..Len(attFiles) |-> sha256Bytes(attFiles[k])]
        /\ attRoot = merkleRoot(attHashes)
        /\ Len(dataHash) = DigestLen /\ Len(attRoot) = DigestLen
        /\ recordHash = sha256Bytes([n \in 1..(2 * DigestLen) |->
                            IF n <= DigestLen THEN dataHash[n] ELSE attRoot[n - DigestLen]])

C11_Witness ==
    pc = "done" /\ Len(attFiles) = 2 /\ Len(recordHash) = DigestLen /\ attRoot # dataHash

\* C12: canonicalMarshal gives the same bytes, and fails alike, for every
\* order in which the keys of the mappings of a value are met, at every
\* nesting level
C12_KeyOrderInsensitive == cpc = "reordered" => cResAlt = cRes

C12_Witness ==
    /\ cpc = "reordered" /\ ~cRes.err /\ cResAlt = cRes
    /\ cIn.k = <<TextZ, TextM>> /\ cAlt.k = <<TextM, TextZ>>
    /\ cAlt.c[2].c[1].k = <<TextA, TextB>> /\ cIn.c[1].c[1].k = <<TextB, TextA>>
    /\ cIn.c[1].c[1].c[1] # cIn.c[1].c[1].c[2]

\* C13 (as claimed): two data files that differ only in the way a number is
\* written (1234.500 and 1234.5) give the same canonical bytes and so the
\* same data digest.
C13_NumberSpellingInsensitive ==
    cpc = "respelled" =>
        /\ cResAlt = cRes
        /\ sha256Bytes(cResAlt.out) = sha256Bytes(cRes.out)

\* C14 (as claimed): for one record, the recordHashHex the verifier computes
\* is the recordHashHex the ingestion server computed and posted.
C14_VerifierMatchesServer == cpc = "served" => cHex = cHexServer

\* the text {"hh_id":"ZA-0001","income":1234.5}
ExampleCanon ==
    <<123, 34, 104, 104, 95, 105, 100, 34, 58, 34, 90, 65, 45, 48, 48, 48,
       49, 34, 44, 34, 105, 110, 99, 111, 109, 101, 34, 58, 49, 50, 51, 52,
       46, 53, 125>>

\* C15: the data {"income":1234.5,"hh_id":"ZA-0001"} canonicalizes to exactly
\* the bytes {"hh_id":"ZA-0001","income":1234.5}, and every run on it with no
\* attachments computes the one record hash these bytes and 32 zero bytes give
C15_ExampleCanonicalBytes ==
    (pc \notin {"start", "off"} /\ dataPath # "" /\ dataFile = ExampleData) =>
        /\ canon = ExampleCanon
        /\ dataHash = sha256Bytes(ExampleCanon)
        /\ (attFiles = <<>>) =>
              recordHashHex = HexOf(sha256Bytes(sha256Bytes(ExampleCanon) \o ZeroDigest))

C15_Witness ==
    /\ pc = "done" /\ exit = 0 /\ dataFile = ExampleData /\ attFiles = <<>>
    /\ canon = ExampleCanon /\ printed = recordHashHex /\ Len(printed) = 64

\* the scalar values and empty containers found in a value at any depth
RECURSIVE LeavesOf(_)
LeavesOf(v) ==
    IF Len(v.c) = 0 THEN {v} ELSE UNION {LeavesOf(v.c[i]) : i \in 1..Len(v.c)}

\* kinds of value the canonical form is defined for
SixKinds == {"map", "slice", "string", "float64", "Number", "bool", "nil"}

\* what encoding/json refuses to write
Unencodable(x) == x.t = "chan" \/ (x.t = "float64" /\ x.s = NaNText)

\* C16 (as claimed): canonicalMarshal fails for every value that holds, at any
\* depth, something that is not a mapping, sequence, string, number, boolean
\* or null, and a failure comes with no bytes.
C16_FailsOutsideSixKinds ==
    cpc = "called" =>
        /\ (\E x \in LeavesOf(cIn) : x.t \notin SixKinds) => cRes.err
        /\ cRes.err => cRes.out = <<>>

\* C16 (amended): canonicalMarshal fails exactly when the value holds, at any
\* depth, something the default JSON encoder refuses (a channel, a NaN); a
\* value of another concrete type, such as an int, is written by the default
\* encoder; a failure comes with no bytes, whatever was built before it.
C16_FailsIffUnencodable ==
    cpc = "called" =>
        /\ cRes.err <=> (cSrc = "value" /\ \E x \in LeavesOf(cIn) : Unencodable(x))
        /\ cRes.err => cRes.out = <<>>
        /\ ~cRes.err => cRes.out # <<>>

C16_Witness ==
    /\ cpc = "called" /\ cSrc = "value" /\ cRes.err /\ cRes.out = <<>>
    /\ cIn.t = "map" /\ cIn.k = <<TextB, TextA>>
    /\ cIn.c[1].t = "chan" /\ cIn.c[2].c[1].t = "int"

\* C17: when the data does not load or does not canonicalize, or one of the
\* attachments cannot be read, whatever its position, the run ends with exit
\* code 1 and an error line, prints no recordHashHex and never creates the
\* context, subscribes or receives a message
C17_FailureEmitsNothing ==
    (/\ pc \notin {"start", "off"} /\ dataPath # ""
     /\ \/ loadJSONFile(dataFile).err
        \/ canonicalMarshal(loadJSONFile(dataFile).v).err
        \/ attFail # 0) =>
        /\ pc = "done" /\ exit = 1 /\ stderr # {}
        /\ printed = <<>> /\ recordHash = <<>> /\ recordHashHex = <<>>
        /\ stream = "none" /\ ctxErr = "nil" /\ ~subErr /\ seq = 0
        /\ reports = <<>> /\ ~notFound /\ ~found

C17_Witness ==
    /\ pc = "done" /\ exit = 1 /\ topicIDStr = "0.0.1234567"
    /\ Len(attFiles) = 2 /\ attFail = 2 /\ Len(attHashes) = 1
    /\ stderr = {"Failed to read attachment"} /\ printed = <<>>

\* main came back from <-ctx.Done(): the search ran and ended
SearchEnded == Searching /\ pc = "done" /\ "Subscribe failed" \notin stderr

\* C18 (as claimed): with a topic ID, the exit code is 0 only if a matching
\* message was observed, and it is 3 exactly when the search ended with no
\* match observed within the time window; no other path gives 3.  A match
\* reported while the context was live was observed within the window; a
\* search with no report at all observed none.
C18_ExitCodeTellsOutcome ==
    (topicGiven /\ pc = "done") =>
        /\ exit = 0 => reports # <<>>
        /\ exit = 3 => (SearchEnded /\ \A r \in 1..Len(reports) : ~reports[r].live)
        /\ (SearchEnded /\ reports = <<>>) => exit = 3

\* C19: without a topic ID main goes from its start to its end in one piece:
\* it prints the record hash and exits with code 0, and never reaches the
\* client, the context and its timer, the subscription or the callback
C19_OfflineOnlyPrintsHash ==
    (topicIDStr = "" /\ pc # "off") =>
        /\ pc \in {"start", "done"}
        /\ stream = "none" /\ ~subErr /\ seq = 0 /\ inflight = 0
        /\ ctxErr = "nil" /\ elapsed = 0
        /\ cbpc = "idle" /\ cur = NoMessage /\ ~found
        /\ reports = <<>> /\ ~notFound
        /\ (pc = "done" /\ dataPath # "" /\ ~loadJSONFile(dataFile).err /\ attFail = 0) =>
              /\ exit = 0 /\ stderr = {}
              /\ printed = recordHashHex /\ Len(printed) = 2 * DigestLen

C19_Witness ==
    /\ topicIDStr = "" /\ pc = "done" /\ exit = 0
    /\ Len(attFiles) = 1 /\ Len(printed) = 2 * DigestLen
    /\ startRFC3339 = "yesterday" /\ timeoutSec = 0

\* C20 (as claimed): the record hash is the hash of the canonical JSON bytes
\* followed by the bytes of the attachment root.
C20_HashOfCanonicalBytesAndRoot ==
    (pc \notin {"start", "off"} /\ recordHash # <<>>) =>
        recordHash = sha256Bytes(canon \o attRoot)

\* the digests of the call in byte-wise ascending order, told by what a
\* sorted list is and not by how merkleRoot sorts
Ascending(t) == \A i, j \in 1..Len(t) : i < j => ~BytesLess(t[j], t[i])
SortedDigests ==
    CHOOSE t \in {[k \in 1..Len(mHashes) |-> mHashes[f[k]]] : f \in Perms(Len(mHashes))} :
        Ascending(t)

\* parent of two digests in the reference construction
RefParent(left, right) ==
    sha256Bytes([n \in 1..(2 * DigestLen) |->
                    IF n <= DigestLen THEN left[n] ELSE right[n - DigestLen]])

\* C21: for two, three and four digests merkleRoot is the root of the
\* reference tree over the sorted digests a <= b <= c <= d: hash(a || b),
\* hash(hash(a || b) || hash(c || c)), hash(hash(a || b) || hash(c || d))
C21_RootIsReferenceTree ==
    (mpc # "init" /\ mpc # "off" /\ Len(mHashes) \in 2..4) =>
        LET t == SortedDigests
        IN  mRoot = CASE Len(t) = 2 -> RefParent(t[1], t[2])
                      [] Len(t) = 3 ->
                            RefParent(RefParent(t[1], t[2]), RefParent(t[3], t[3]))
                      [] Len(t) = 4 ->
                            RefParent(RefParent(t[1], t[2]), RefParent(t[3], t[4]))

C21_Witness ==
    /\ mpc = "rooted" /\ Len(mHashes) = 3
    /\ BytesLess(mHashes[3], mHashes[1]) /\ BytesLess(mHashes[1], mHashes[2])
    /\ mRoot # RefParent(RefParent(mHashes[1], mHashes[2]), RefParent(mHashes[3], mHashes[3]))

\* bytes of a scalar of a data file in the canonical form
ScalarText(j) == jsonMarshal(DecodeUseNumber(j)).out

\* the text {"m":{"a":X,"b":Y},"z":[{"a":Y,"b":X},X]}
NestedCanon(X, Y) ==
    <<123, 34, 109, 34, 58, 123, 34, 97, 34, 58>> \o X \o <<44, 34, 98, 34, 58>> \o Y
    \o <<125, 44, 34, 122, 34, 58, 91, 123, 34, 97, 34, 58>> \o Y
    \o <<44, 34, 98, 34, 58>> \o X \o <<125, 44>> \o X \o <<93, 125>>

\* C22: the elements of a sequence are written in the order the sequence has
\* them, so a value that differs from another in the order of the elements
\* of a sequence gets other bytes, while a mapping inside a sequence is
\* written with its keys sorted
C22_SequenceOrderKept ==
    /\ (cpc # "init" /\ cpc # "off" /\ cSrc = "value" /\ cIn.t = "slice" /\ ~cRes.err) =>
          cRes.out = <<91>> \o jsonMarshal(cIn.c[1]).out \o <<44>>
                     \o jsonMarshal(cIn.c[2]).out \o <<93>>
    /\ (cpc # "init" /\ cpc # "off" /\ cSrc = "file" /\ cIn.k = <<TextZ, TextM>>) =>
          cRes.out = NestedCanon(ScalarText(cIn.c[1].c[2]), ScalarText(cIn.c[1].c[1].c[2]))
    /\ (cpc = "shuffled" /\ ~cRes.err /\ cAlt # cIn) =>
          ~cResAlt.err /\ cResAlt.out # cRes.out

C22_Witness ==
    /\ cpc = "shuffled" /\ cSrc = "file" /\ cIn.k = <<TextZ, TextM>>
    /\ cAlt.c[1].c[1] = cIn.c[1].c[2] /\ cAlt.c[1].c[2] = cIn.c[1].c[1]
    /\ cAlt # cIn /\ cResAlt.out # cRes.out /\ ~cRes.err

\* C23: the messages that do not parse as a JSON object and those that parse
\* but hold no recordHashHex string equal to the hash match neither encoding
\* unless their bytes are the digest; such a message is dropped: the step that delivers it changes nothing of
\* the search but the position in the stream, and as long as no message that
\* carries the hash was delivered found is false, nothing is reported, the
\* context is not cancelled and the callback has written no error
C23_NonMatchingIsDiscarded ==
    /\ [](pc = "client" =>
            /\ \A kind \in {"json_truncated", "raw_other", "raw_short", "hex_text"} :
                  /\ jsonUnmarshal(Payload(kind, recordHash)).err
                  /\ MatchedEncoding(Payload(kind, recordHash), recordHashHex) = "none"
            /\ \A kind \in {"json_other_hash", "json_number", "json_other_key", "json_null"} :
                  /\ ~jsonUnmarshal(Payload(kind, recordHash)).err
                  /\ MatchedEncoding(Payload(kind, recordHash), recordHashHex) = "none")
    /\ [](firstMatch = 0 =>
            /\ ~found /\ reports = <<>> /\ ctxErr # "Canceled" /\ cbpc = "idle"
            /\ stderr \subseteq {"Subscribe failed", "Subscription error",
                                 "Error: -data is required", "Failed to read data JSON",
                                 "Failed to read attachment", "Invalid topic ID",
                                 "Invalid -start time (RFC3339)"})
    /\ [][(cur' # cur /\ cur'.enc = "none") =>
            /\ cbpc' = "idle" /\ found' = found /\ ctxErr' = ctxErr
            /\ pc' = pc /\ exit' = exit /\ stream' = stream
            /\ stderr' = stderr /\ reports' = reports /\ notFound' = notFound]_vars

C23_Witness ==
    /\ pc = "wait" /\ ctxErr = "nil" /\ stream = "active"
    /\ cur.seq = 2 /\ cur.kind = "other" /\ cur.enc = "none" /\ cbpc = "idle"
    /\ ~found /\ firstMatch = 0 /\ stderr = {} /\ reports = <<>>

\* C24 (as claimed): when a message carrying the hash was delivered, and
\* its match block printed, while the context was neither expired nor
\* cancelled, main ends found (exit code 0), not timed out.
C24_DeliveredMatchIsFound ==
    (pc = "done" /\ Searching /\ \E r \in 1..Len(reports) : reports[r].live) =>
        (exit = 0 /\ ~notFound)

====
